---- MODULE Spec2Model ----
(***************************************************************************)
(* The outbound delivery worker of lib/sender.js (class Sender).  One      *)
(* worker, its queue command channel, the dial of getConnection, the       *)
(* header block of each delivery, and the bounce webhook / internal        *)
(* bounce that follow a permanent reject.  Every callback of the source    *)
(* is one action; what the source does between two callbacks happens       *)
(* inside one action.                                                      *)
(***************************************************************************)
EXTENDS Integers, Sequences, FiniteSets, TLC

(* ------------------------------ bounds -------------------------------- *)
MaxDeliveries == 2

MaxEmpty == 1

MaxMX == 2

MaxIPs == 2

MaxCount == 8

MaxIdle == 33

MaxCalls == 2

(* ------------------------- program constants -------------------------- *)
MaxDeferred == 6

MaxHops == 25

MaxBounceRetries == 5

MaxTtlMinutes == 1024

MaxEmptyFactor == 1000

VARIABLES
    closing,      \* this.closing, the drain flag
    emptyChecks,  \* this.emptyChecks
    delay,        \* the delay of the pending empty-queue setTimeout, ms
    errorEvents,  \* number of 'error' events emitted by the worker
    config,       \* config.dkim.enabled, config.bounces.url, config.bounces.enabled
    zone,         \* this.zone: disableStarttls, auth, host
    queue,        \* the jobs the queue authority holds for this worker, in order
    pc,           \* where the delivery loop waits
    cur,          \* index of the delivery the loop is working on (0: none)
    deliveries,   \* the delivery objects returned by GET, in order, each with
                  \* the reply its dial or send ended with (err.response, info.response)
    exchanges,    \* getConnection: exchanges
    mxTry,        \* getConnection: mxTry
    ipList,       \* tryConnectMX: ipList
    ipTry,        \* tryConnectMX: ipTry
    conn,         \* the SMTPConnection of the latest attempt and its closure flags
    attempts,     \* the connection attempts of the current dial, in order
    resolved,     \* the number of IPs resolveIp returned in the current dial
    sent,         \* every command handed to sendCommand, in order
    pending,      \* the commands whose reply has not arrived, with their callback
    hooks,        \* the notifyBounce closures (webhook), in order of creation
    bounces,      \* the scheduled sendBounceMessage calls, in order of creation
    wire,         \* the header blocks written to a messageStream, in order
    sockets,      \* the connection objects made by new SMTPConnection, numbered in
                  \* order, and those the worker closed or that emitted 'error';
                  \* kept only by the specification that watches connections
    calls         \* how often the callback of the current getConnection call was
                  \* invoked; kept only by the specification with late events

vars == <<closing, emptyChecks, delay, errorEvents, config, zone, queue, pc, cur,
          deliveries, exchanges, mxTry, ipList, ipTry, conn, attempts, resolved, sent,
          pending, hooks, bounces, wire, sockets, calls>>

loopVars == <<pc, cur>>

dialVars == <<exchanges, mxTry, ipList, ipTry, conn, attempts, resolved, sockets, calls>>

taskVars == <<hooks, bounces>>

flagVars == <<closing, errorEvents>>

envVars == <<config, zone, queue>>

(* ----------------------------- helpers -------------------------------- *)
Min(a, b) == IF a < b THEN a ELSE b

RECURSIVE Pow(_, _)
Pow(b, e) == IF e = 0 THEN 1 ELSE b * Pow(b, e - 1)

RECURSIVE Reverse(_)
Reverse(s) == IF s = <<>> THEN <<>> ELSE Append(Reverse(Tail(s)), Head(s))

(* ------------------- mailsplit Headers, as used here ------------------- *)
\* Headers._normalizeHeader: keys are compared in lower case.
normalizeHeader(key) ==
    CASE key = "Received" -> "received"
      [] key = "X-Zone-Spam-Status" -> "x-zone-spam-status"
      [] key = "Subject" -> "subject"
      [] OTHER -> key

Infinity == 1000000

\* Headers.addFormatted(key, line, index): index < 1 (or no index) puts the
\* line on top, an index past the end puts it at the bottom.
addFormatted(lines, key, line, index) ==
    LET header == [key |-> normalizeHeader(key), line |-> line] IN
    IF index < 1 THEN <<header>> \o lines
    ELSE IF index >= Len(lines) THEN Append(lines, header)
    ELSE SubSeq(lines, 1, index) \o <<header>> \o SubSeq(lines, index + 1, Len(lines))

\* Headers.get(key): the lines of that key.
get(lines, key) == SelectSeq(lines, LAMBDA h : h.key = normalizeHeader(key))

\* new Headers(delivery.headers): the block as the queue stored it.
Headers(lines) == [i \in 1..Len(lines) |-> [key |-> normalizeHeader(lines[i].key), line |-> lines[i].line]]

\* zone.generateReceivedHeader(delivery, hostname)
generateReceivedHeader(hostname) == <<"by", hostname>>

\* dkimSign.sign(headers, hashAlgo, bodyHash, key): the signature header of key
dkimSign(lines, key) == <<"d", key>>

\* signMessage: one DKIM-Signature per key, keys taken in reverse order, each
\* added with addFormatted and no index.
RECURSIVE signKeys(_, _)
signKeys(lines, keys) ==
    IF keys = <<>> THEN lines
    ELSE signKeys(addFormatted(lines, "dkim-signature", dkimSign(lines, Head(keys)), 0), Tail(keys))

\* mutant: the keys are signed in the order of the list
signMessage_Forward(delivery) ==
    IF ~delivery.hasDkim THEN delivery.headers
    ELSE signKeys(delivery.headers, delivery.dkimKeys)

signMessage(delivery) ==
    IF ~delivery.hasDkim THEN delivery.headers
    ELSE signKeys(delivery.headers, Reverse(delivery.dkimKeys))

(* ------------------------- bounce classification ----------------------- *)
NoResponse == "none"

CantFindMx == "450 Can't find an MX server"

CantConnectMx == "450 Can't connect to any MX server"

\* info.response of an accepted message
Accepted == "250 2.0.0 ok"

\* no outcome yet
NoReply == ""

SendErrors == {"451 4.3.0 try later", "550 5.1.1 no such user", NoResponse}

LoginErrors == {"454 4.7.0 temporary authentication failure", "535 5.7.8 authentication failed"}

\* bounces.check(response).action: 5xx replies reject, everything else defers.
bounces_check(response) ==
    IF response \in {"550 5.1.1 no such user", "535 5.7.8 authentication failed"}
    THEN "reject" ELSE "defer"

\* mutant: the ttl without the cap
DeferTtl_Uncapped(deferredCount) == Pow(5, deferredCount + 1) * 60 * 1000

\* handleResponseError: the ttl handed to deferDelivery
DeferTtl(deferredCount) == Min(Pow(5, deferredCount + 1), MaxTtlMinutes) * 60 * 1000

\* mutant: the classification is read the wrong way round
ShouldDefer_Inverted(response, deferredCount) ==
    bounces_check(response) = "reject" \/ deferredCount > MaxDeferred

\* handleResponseError: the test that chooses deferDelivery over releaseDelivery
ShouldDefer(response, deferredCount) ==
    bounces_check(response) # "reject" \/ deferredCount > MaxDeferred

\* mutant: the delay without the cap
EmptyDelay_Uncapped(n) == Pow(n, 2) * 10

\* sendNext, empty queue: the delay of the retry timer
EmptyDelay(n) == Min(Pow(n, 2), MaxEmptyFactor) * 10

(* ------------------------------ inputs -------------------------------- *)
\* The deployments: config.dkim.enabled, config.bounces.url, config.bounces.enabled
\* and the zone's disableStarttls, auth and host.
Deployment(dkim, url, enabled, plain, auth, host) ==
    [config |-> [dkimEnabled |-> dkim, bouncesUrl |-> url, bouncesEnabled |-> enabled],
     zone |-> [disableStarttls |-> plain, auth |-> auth, host |-> host]]

\* a next hop pinned by zone.host, no webhook
PinnedDeployments ==
    { Deployment(TRUE, FALSE, TRUE, FALSE, FALSE, TRUE),
      Deployment(FALSE, FALSE, FALSE, TRUE, TRUE, TRUE) }

\* MX resolution, no webhook
MxDeployments ==
    { Deployment(FALSE, FALSE, FALSE, FALSE, TRUE, FALSE),
      Deployment(TRUE, FALSE, TRUE, TRUE, FALSE, FALSE) }

\* a webhook, with and without internal bounces
HookDeployments ==
    { Deployment(TRUE, TRUE, TRUE, FALSE, FALSE, TRUE),
      Deployment(FALSE, TRUE, FALSE, FALSE, FALSE, TRUE) }

HopLine == [key |-> "Received", line |-> <<"by", "hop">>]

SubjectLine == [key |-> "Subject", line |-> <<"hello">>]

\* a stored header block with n Received lines
StoredHeaders(n) == [i \in 1..(n + 1) |-> IF i <= n THEN HopLine ELSE SubjectLine]

Senders == {"", "a@x"}

StoredHops == {MaxHops - 1, MaxHops}

DeferredCounts == {0, MaxDeferred, MaxDeferred + 1}

DkimKeySets == {<<>>, <<"k1", "k2">>}

AllJobs == [from : Senders, hops : StoredHops, deferredCount : DeferredCounts,
            dkimKeys : DkimKeySets, spam : BOOLEAN]

PlainJob == [from |-> "a@x", hops |-> MaxHops - 1, deferredCount |-> 0,
             dkimKeys |-> <<>>, spam |-> FALSE]

\* The jobs the queue hands out: the plain job and those that differ from
\* it in one field.
Jobs == {job \in AllJobs :
            Cardinality({f \in DOMAIN job : job[f] # PlainJob[f]}) <= 1}

\* The queues of n jobs of which at most one is not the plain job.
Queues(n) == {q \in [1..n -> Jobs] : Cardinality({i \in 1..n : q[i] # PlainJob}) <= 1}

\* What a run starts from: pipelined deliveries to a pinned next hop, and
\* shorter queues where MX resolution or the webhook take part.
Scenarios ==
    [deployment : PinnedDeployments, queue : Queues(MaxDeliveries)]
    \cup [deployment : MxDeployments \cup HookDeployments, queue : Queues(MaxDeliveries - 1)]

MXNames == [i \in 1..(MaxMX + 1) |-> <<"mx", i>>]

IPNames == [i \in 1..(MaxIPs + 1) |-> <<"ip", i>>]

NoConn == [exchange |-> <<"mx", 0>>, host |-> <<"ip", 0>>, name |-> "none",
           requireTLS |-> FALSE, ignoreTLS |-> FALSE,
           returned |-> FALSE, connected |-> FALSE, closed |-> FALSE]

NoLock == 0

LockOf(k) == 100 + k

Command(cmd, id, seq, lock, ttl) ==
    [cmd |-> cmd, id |-> id, seq |-> seq, lock |-> lock, ttl |-> ttl]

Waiting(i, onReply) == [i |-> i, onReply |-> onReply]

\* connections are not watched / watched, none made yet
Untracked == [watch |-> FALSE, opened |-> 0, closed |-> {}, errored |-> {}]

Tracked == [watch |-> TRUE, opened |-> 0, closed |-> {}, errored |-> {}]

\* new SMTPConnection(options), n times (0 or 1)
opening(s, n) == IF s.watch THEN [s EXCEPT !.opened = @ + n] ELSE s

\* connection.close() called by the worker on the connection it holds, the
\* latest made
closeCall(s) == IF s.watch THEN [s EXCEPT !.closed = @ \cup {s.opened}] ELSE s

\* the connection the worker holds emitted 'error'
errorEvent(s) == IF s.watch THEN [s EXCEPT !.errored = @ \cup {s.opened}] ELSE s

\* callbacks are not counted / counted, none invoked yet
Uncounted == [watch |-> FALSE, n |-> 0]

Counted == [watch |-> TRUE, n |-> 0]

\* getConnection is called
newCall(c) == IF c.watch THEN [c EXCEPT !.n = 0] ELSE c

\* the step invokes the getConnection callback: the loop goes on to
\* handleResponseError and the next iteration, or to the send
invoked(c) ==
    IF c.watch /\ pc # "send" /\ pc' \in {"next", "send"} THEN [c EXCEPT !.n = @ + 1] ELSE c

(* ------------------------------- Init --------------------------------- *)
\* The constructor ends with this.sendNext(): the first GET is out.
Start(scenarios) ==
    /\ closing = FALSE
    /\ emptyChecks = 0
    /\ delay = 0
    /\ errorEvents = 0
    /\ \E s \in scenarios :
         /\ config = s.deployment.config
         /\ zone = s.deployment.zone
         /\ queue = s.queue
    /\ pc = "get"
    /\ cur = 0
    /\ deliveries = <<>>
    /\ exchanges = <<>>
    /\ mxTry = 0
    /\ ipList = <<>>
    /\ ipTry = -1
    /\ conn = NoConn
    /\ attempts = <<>>
    /\ resolved = 0
    /\ sent = <<Command("GET", 0, 0, NoLock, 0)>>
    /\ pending = {Waiting(1, "get")}
    /\ hooks = <<>>
    /\ bounces = <<>>
    /\ wire = <<>>

Init == Start(Scenarios) /\ sockets = Untracked /\ calls = Uncounted

(* ------------------------ the queue commands --------------------------- *)
\* this.sendCommand(cmd, callback): the command goes out, the callback waits.
sendCommand(cmd, onReply) ==
    /\ sent' = Append(sent, cmd)
    /\ pending' = pending \cup {Waiting(Len(sent) + 1, onReply)}

\* mutant: RELEASE without the lock of the GET
releaseDelivery_NoLock(k, onReply) ==
    sendCommand(Command("RELEASE", k, deliveries[k].seq, NoLock, 0), onReply)

releaseDelivery(k, onReply) ==
    sendCommand(Command("RELEASE", k, deliveries[k].seq, deliveries[k].lock, 0), onReply)

\* mutant: the DEFER is built and never handed to sendCommand
deferDelivery_Unsent(k, ttl, onReply) == UNCHANGED <<sent, pending>>

deferDelivery(k, ttl, onReply) ==
    sendCommand(Command("DEFER", k, deliveries[k].seq, deliveries[k].lock, ttl), onReply)

\* mutant: the error is logged and no command is sent
handleResponseError_Silent(k, response) ==
    UNCHANGED <<sent, pending>>

\* handleResponseError up to the command it sends; the rest runs on the reply.
handleResponseError(k, response) ==
    IF ShouldDefer(response, deliveries[k].deferredCount)
    THEN deferDelivery(k, DeferTtl(deliveries[k].deferredCount), "deferred")
    ELSE releaseDelivery(k, "rejected")

(* --------------------------- the delivery loop ------------------------- *)
\* mutant: sendNext without the test of this.closing
SendNext_Unchecked ==
    /\ pc \in {"next", "timer"}
    /\ pc' = "get"
    /\ sendCommand(Command("GET", 0, 0, NoLock, 0), "get")
    /\ delay' = 0
    /\ UNCHANGED <<flagVars, envVars, emptyChecks, cur, deliveries, dialVars,
                   taskVars, wire>>

\* mutant: the iteration started by the empty-queue timer skips the test
SendNext_TimerUnchecked ==
    /\ pc \in {"next", "timer"}
    /\ IF closing /\ pc = "next"
       THEN pc' = "stopped" /\ UNCHANGED <<sent, pending>>
       ELSE pc' = "get" /\ sendCommand(Command("GET", 0, 0, NoLock, 0), "get")
    /\ delay' = 0
    /\ UNCHANGED <<flagVars, envVars, emptyChecks, cur, deliveries, dialVars,
                   taskVars, wire>>

\* sendNext(), run by setImmediate or by the empty-queue timer.
SendNext ==
    /\ pc \in {"next", "timer"}
    /\ IF closing
       THEN pc' = "stopped" /\ UNCHANGED <<sent, pending>>
       ELSE pc' = "get" /\ sendCommand(Command("GET", 0, 0, NoLock, 0), "get")
    /\ delay' = 0
    /\ UNCHANGED <<flagVars, envVars, emptyChecks, cur, deliveries, dialVars,
                   taskVars, wire>>

\* GET replies with an error.
GetError ==
    /\ pc = "get"
    /\ \E w \in pending :
         /\ w.onReply = "get"
         /\ pending' = pending \ {w}
    /\ closing' = TRUE
    /\ errorEvents' = errorEvents + 1
    /\ pc' = "stopped"
    /\ UNCHANGED <<envVars, emptyChecks, delay, cur, deliveries, dialVars, sent,
                   taskVars, wire>>

\* mutant: the empty reply starts the next GET at once and keeps the timer too
GetEmpty_Twice ==
    /\ pc = "get"
    /\ emptyChecks < MaxEmpty
    /\ sendCommand(Command("GET", 0, 0, NoLock, 0), "get")
    /\ emptyChecks' = emptyChecks + 1
    /\ delay' = EmptyDelay(emptyChecks')
    /\ pc' = "get"
    /\ UNCHANGED <<flagVars, envVars, cur, deliveries, dialVars, taskVars, wire>>

\* GET replies with no job; limit bounds the replies of this kind in a row.
EmptyReply(limit) ==
    /\ pc = "get"
    /\ emptyChecks < limit
    /\ \E w \in pending :
         /\ w.onReply = "get"
         /\ pending' = pending \ {w}
    /\ emptyChecks' = emptyChecks + 1
    /\ delay' = EmptyDelay(emptyChecks')
    /\ pc' = "timer"
    /\ UNCHANGED <<flagVars, envVars, cur, deliveries, dialVars, sent, taskVars, wire>>

GetEmpty == EmptyReply(MaxEmpty)

\* The delivery object as sendNext leaves it before the speedometer.
NewDelivery(k, job) ==
    LET stored == Headers(StoredHeaders(job.hops)) IN
    [id |-> k, seq |-> 1, lock |-> LockOf(k), from |-> job.from,
     deferredCount |-> job.deferredCount, reply |-> NoReply,
     hasDkim |-> job.dkimKeys # <<>>, dkimKeys |-> job.dkimKeys,
     headers |-> IF job.spam
                 THEN addFormatted(stored, "X-Zone-Spam-Status", <<"No">>, Infinity)
                 ELSE stored]

\* GET replies with a job.
GetJob ==
    /\ pc = "get"
    /\ queue # <<>>
    /\ \E w \in pending :
         /\ w.onReply = "get"
         /\ pending' = pending \ {w}
    /\ deliveries' = Append(deliveries, NewDelivery(Len(deliveries) + 1, Head(queue)))
    /\ queue' = Tail(queue)
    /\ cur' = Len(deliveries) + 1
    /\ emptyChecks' = 0
    /\ pc' = "speedometer"
    /\ UNCHANGED <<flagVars, config, zone, delay, dialVars, sent, taskVars, wire>>

(* ------------------------------ the dial ------------------------------- *)
\* The locals of a finished getConnection call are out of reach, unless the
\* handlers of its connection are watched for events that arrive late: the
\* closure of tryConnectIP lives as long as the connection object.
ResetDial ==
    IF calls.watch
    THEN UNCHANGED <<exchanges, mxTry, ipList, ipTry, conn, attempts, resolved>>
    ELSE /\ exchanges' = <<>>
         /\ mxTry' = 0
         /\ ipList' = <<>>
         /\ ipTry' = -1
         /\ conn' = NoConn
         /\ attempts' = <<>>
         /\ resolved' = 0

\* The getConnection callback with an error (sendNext, lines 146-157).
DialFail(response) ==
    /\ deliveries' = [deliveries EXCEPT
           ![cur].headers = addFormatted(@, "Received", generateReceivedHeader("os.hostname"), 0),
           ![cur].reply = response]
    /\ handleResponseError(cur, response)
    /\ pc' = "next"
    /\ ResetDial

\* mutant: the dial gives up after the first exchange
tryConnectMX_FirstOnly(exs, mx, old) ==
    IF mx >= Min(1, Len(exs))
    THEN DialFail(CantConnectMx)
    ELSE /\ exchanges' = exs
         /\ mxTry' = mx + 1
         /\ ipList' = <<>>
         /\ ipTry' = -1
         /\ conn' = old
         /\ attempts' = attempts
         /\ resolved' = resolved
         /\ pc' = "resolveIp"
         /\ UNCHANGED <<deliveries, sent, pending>>

\* tryConnectMX with the given exchanges and mxTry; old is the connection
\* object left in `connection`.
tryConnectMX(exs, mx, old) ==
    IF mx >= Len(exs)
    THEN DialFail(CantConnectMx)
    ELSE /\ exchanges' = exs
         /\ mxTry' = mx + 1
         /\ ipList' = <<>>
         /\ ipTry' = -1
         /\ conn' = old
         /\ attempts' = attempts
         /\ resolved' = resolved
         /\ pc' = "resolveIp"
         /\ UNCHANGED <<deliveries, sent, pending>>

\* mutant: the TLS options do not follow zone.disableStarttls
newConnection_AlwaysTls(exchange, ip, z) ==
    [exchange |-> exchange, host |-> ip, name |-> "zone.helo",
     requireTLS |-> TRUE, ignoreTLS |-> FALSE,
     returned |-> FALSE, connected |-> FALSE, closed |-> FALSE]

\* mutant: TLS is left to the server's offer, whatever the zone says
newConnection_Opportunistic(exchange, ip, z) ==
    [exchange |-> exchange, host |-> ip, name |-> "zone.helo",
     requireTLS |-> FALSE, ignoreTLS |-> FALSE,
     returned |-> FALSE, connected |-> FALSE, closed |-> FALSE]

\* new SMTPConnection(options) and the flags of its closure
newConnection(exchange, ip, z) ==
    [exchange |-> exchange, host |-> ip, name |-> "zone.helo",
     requireTLS |-> ~z.disableStarttls, ignoreTLS |-> z.disableStarttls,
     returned |-> FALSE, connected |-> FALSE, closed |-> FALSE]

\* mutant: the retry flag is ignored, every call moves to the next IP
tryConnectIP_Advance(retryConnection, ips, ip, z, old) ==
    IF ip >= Len(ips) - 1
    THEN tryConnectMX(exchanges, mxTry, old)
    ELSE LET c == newConnection(exchanges[mxTry], ips[ip + 2], z)
         IN /\ ipList' = ips
            /\ ipTry' = ip + 1
            /\ conn' = c
            /\ attempts' = Append(attempts, c)
            /\ resolved' = IF ip = -1 THEN resolved + Len(ips) ELSE resolved
            /\ pc' = "connect"
            /\ UNCHANGED <<exchanges, mxTry, deliveries, sent, pending>>

\* tryConnectIP(retryConnection) on list ips with index ip, the zone being z.
tryConnectIP(retryConnection, ips, ip, z, old) ==
    IF ~retryConnection /\ ip >= Len(ips) - 1
    THEN tryConnectMX(exchanges, mxTry, old)
    ELSE LET i == IF retryConnection THEN ip ELSE ip + 1
             c == newConnection(exchanges[mxTry], ips[i + 1], z)
         IN /\ ipList' = ips
            /\ ipTry' = i
            /\ conn' = c
            /\ attempts' = Append(attempts, c)
            /\ resolved' = IF ip = -1 THEN resolved + Len(ips) ELSE resolved
            /\ pc' = "connect"
            /\ UNCHANGED <<exchanges, mxTry, deliveries, sent, pending>>

\* The speedometer lets the delivery through: getConnection starts, and
\* resolveMx answers at once when the zone pins a host.
Speedometer ==
    /\ pc = "speedometer"
    /\ IF zone.host
       THEN tryConnectMX(<<<<"mx", 1>>>>, 0, NoConn)
       ELSE pc' = "resolveMx" /\ UNCHANGED <<exchanges, mxTry, ipList, ipTry, conn, attempts,
                                               resolved, deliveries, sent, pending>>
    /\ sockets' = sockets
    /\ calls' = newCall(calls)
    /\ UNCHANGED <<flagVars, envVars, emptyChecks, delay, cur, taskVars, wire>>

\* iptools.resolveMx calls back: an error, no exchanges, or a list.
ResolveMx ==
    /\ pc = "resolveMx"
    /\ \/ DialFail(NoResponse)
       \/ DialFail(CantFindMx)
       \/ \E n \in 0..MaxMX : tryConnectMX(SubSeq(MXNames, 1, n), 0, conn)
    /\ sockets' = sockets
    /\ calls' = invoked(calls)
    /\ UNCHANGED <<flagVars, envVars, emptyChecks, delay, cur, taskVars, wire>>

\* iptools.resolveIp calls back: an error or an empty list, or a list.
ResolveIp ==
    /\ pc = "resolveIp"
    /\ \/ tryConnectMX(exchanges, mxTry, conn)
       \/ \E n \in 1..MaxIPs : tryConnectIP(FALSE, SubSeq(IPNames, 1, n), -1, zone, conn)
    /\ sockets' = opening(sockets, IF Len(attempts') > Len(attempts) THEN 1 ELSE 0)
    /\ calls' = invoked(calls)
    /\ UNCHANGED <<flagVars, envVars, emptyChecks, delay, cur, taskVars, wire>>

\* mutant: the STARTTLS failure is answered with a plaintext retry but not
\* remembered in the zone
ConnError_Forgets ==
    /\ pc \in {"connect", "login"}
    /\ ~conn.returned
    /\ \/ /\ pc = "connect"
          /\ ~conn.ignoreTLS
          /\ zone' = zone
          /\ tryConnectIP(TRUE, ipList, ipTry, [zone EXCEPT !.disableStarttls = TRUE],
                          [conn EXCEPT !.returned = TRUE])
       \/ /\ zone' = zone
          /\ tryConnectIP(FALSE, ipList, ipTry, zone, [conn EXCEPT !.returned = TRUE])
    /\ sockets' = opening(errorEvent(sockets), IF Len(attempts') > Len(attempts) THEN 1 ELSE 0)
    /\ calls' = invoked(calls)
    /\ UNCHANGED <<flagVars, config, queue, emptyChecks, delay, cur, taskVars, wire>>

\* The connection emits 'error' before the session was handed over.  ETLS is
\* the failure of the STARTTLS upgrade, which a connection made with
\* ignoreTLS never starts and which precedes the connect callback.
ConnError ==
    /\ pc \in {"connect", "login"}
    /\ ~conn.returned
    /\ \/ /\ pc = "connect"
          /\ ~conn.ignoreTLS
          /\ zone' = [zone EXCEPT !.disableStarttls = TRUE]
          /\ tryConnectIP(TRUE, ipList, ipTry, zone', [conn EXCEPT !.returned = TRUE])
       \/ /\ zone' = zone
          /\ tryConnectIP(FALSE, ipList, ipTry, zone, [conn EXCEPT !.returned = TRUE])
    /\ sockets' = opening(errorEvent(sockets), IF Len(attempts') > Len(attempts) THEN 1 ELSE 0)
    /\ calls' = invoked(calls)
    /\ UNCHANGED <<flagVars, config, queue, emptyChecks, delay, cur, taskVars, wire>>

\* The getConnection callback with a session (sendNext, lines 159-192): the
\* Received header, the signatures, and the header block written to the stream.
Handover ==
    LET received == addFormatted(deliveries[cur].headers, "Received",
                                 generateReceivedHeader(conn.name), 0)
        signed == IF config.dkimEnabled
                  THEN signMessage([deliveries[cur] EXCEPT !.headers = received])
                  ELSE received
    IN /\ conn' = [conn EXCEPT !.connected = TRUE]
       /\ deliveries' = [deliveries EXCEPT ![cur].headers = signed]
       /\ wire' = Append(wire, [id |-> cur, headers |-> signed, session |-> sockets.opened])
       /\ pc' = "send"
       /\ calls' = invoked(calls)
       /\ UNCHANGED <<exchanges, mxTry, ipList, ipTry, attempts, resolved, sockets,
                      sent, pending>>

\* connection.connect calls back.
Connected ==
    /\ pc = "connect"
    /\ ~conn.returned
    /\ IF zone.auth
       THEN pc' = "login" /\ UNCHANGED <<dialVars, deliveries, wire, sent, pending>>
       ELSE Handover
    /\ UNCHANGED <<flagVars, envVars, emptyChecks, delay, cur, taskVars>>

\* mutant: a failed AUTH closes the connection and calls nobody back
LoginDone_Dropped ==
    /\ pc = "login"
    /\ ~conn.returned
    /\ \/ pc' = "hung" /\ UNCHANGED <<dialVars, deliveries, sent, pending, wire>>
       \/ Handover
    /\ UNCHANGED <<flagVars, envVars, emptyChecks, delay, cur, taskVars>>

\* connection.login calls back: with the server's reply to a failed AUTH
\* (the connection is closed, the reply goes to the callback), or without.
LoginDone ==
    /\ pc = "login"
    /\ ~conn.returned
    /\ \/ \E response \in LoginErrors :
             /\ DialFail(response)
             /\ wire' = wire
             /\ sockets' = closeCall(sockets)
             /\ calls' = invoked(calls)
       \/ Handover
    /\ UNCHANGED <<flagVars, envVars, emptyChecks, delay, cur, taskVars>>

\* mutant: the send-error branch does not schedule the next iteration
SendDone_NoNext ==
    /\ pc = "send"
    /\ \/ \E response \in SendErrors :
             /\ handleResponseError(cur, response)
             /\ deliveries' = [deliveries EXCEPT ![cur].reply = response]
             /\ pc' = "idle"
       \/ /\ releaseDelivery(cur, "accepted")
          /\ deliveries' = [deliveries EXCEPT ![cur].reply = Accepted]
          /\ pc' = "next"
    /\ ResetDial
    /\ sockets' = closeCall(sockets)
    /\ calls' = calls
    /\ UNCHANGED <<flagVars, envVars, emptyChecks, delay, cur, taskVars, wire>>

\* mutant: the send-error branch stamps a Received header like the dial-failure branch
SendDone_Restamp ==
    /\ pc = "send"
    /\ \/ \E response \in SendErrors :
             /\ handleResponseError(cur, response)
             /\ deliveries' = [deliveries EXCEPT
                   ![cur].headers = addFormatted(@, "Received",
                                                 generateReceivedHeader("os.hostname"), 0),
                   ![cur].reply = response]
       \/ /\ releaseDelivery(cur, "accepted")
          /\ deliveries' = [deliveries EXCEPT ![cur].reply = Accepted]
    /\ pc' = "next"
    /\ ResetDial
    /\ sockets' = closeCall(sockets)
    /\ calls' = calls
    /\ UNCHANGED <<flagVars, envVars, emptyChecks, delay, cur, taskVars, wire>>

\* mutant: the send callback leaves the connection open
SendDone_Unclosed ==
    /\ pc = "send"
    /\ \/ \E response \in SendErrors :
             /\ handleResponseError(cur, response)
             /\ deliveries' = [deliveries EXCEPT ![cur].reply = response]
       \/ /\ releaseDelivery(cur, "accepted")
          /\ deliveries' = [deliveries EXCEPT ![cur].reply = Accepted]
    /\ pc' = "next"
    /\ ResetDial
    /\ sockets' = sockets
    /\ calls' = calls
    /\ UNCHANGED <<flagVars, envVars, emptyChecks, delay, cur, taskVars, wire>>

\* connection.send calls back: the connection is closed, then the outcome.
SendDone ==
    /\ pc = "send"
    /\ \/ \E response \in SendErrors :
             /\ handleResponseError(cur, response)
             /\ deliveries' = [deliveries EXCEPT ![cur].reply = response]
       \/ /\ releaseDelivery(cur, "accepted")
          /\ deliveries' = [deliveries EXCEPT ![cur].reply = Accepted]
    /\ pc' = "next"
    /\ ResetDial
    /\ sockets' = closeCall(sockets)
    /\ calls' = calls
    /\ UNCHANGED <<flagVars, envVars, emptyChecks, delay, cur, taskVars, wire>>

(* -------------------- replies to RELEASE, DEFER, BOUNCE ---------------- *)
\* The reply carries an error: closing, and the 'error' event.
ReplyError ==
    /\ \E w \in pending :
         /\ w.onReply # "get"
         /\ pending' = pending \ {w}
    /\ closing' = TRUE
    /\ errorEvents' = errorEvents + 1
    /\ UNCHANGED <<envVars, emptyChecks, delay, loopVars, deliveries, dialVars, sent,
                   taskVars, wire>>

\* RELEASE of an accepted delivery, DEFER and BOUNCE are acknowledged.
ReplyOk ==
    /\ \E w \in pending :
         /\ w.onReply \in {"accepted", "deferred", "bounced"}
         /\ pending' = pending \ {w}
    /\ UNCHANGED <<flagVars, envVars, emptyChecks, delay, loopVars, deliveries,
                   dialVars, sent, taskVars, wire>>

\* RELEASE of a rejected delivery is acknowledged (handleResponseError,
\* lines 255-311): the webhook and the internal bounce are scheduled.
ReleaseRejectedOk ==
    /\ \E w \in pending :
         /\ w.onReply = "rejected"
         /\ pending' = pending \ {w}
         /\ hooks' = IF config.bouncesUrl
                     THEN Append(hooks, [id |-> sent[w.i].id, state |-> "scheduled",
                                         retries |-> 0, posts |-> 0])
                     ELSE hooks
         /\ bounces' = IF config.bouncesEnabled
                       THEN Append(bounces, [id |-> sent[w.i].id, state |-> "scheduled"])
                       ELSE bounces
    /\ UNCHANGED <<flagVars, envVars, emptyChecks, delay, loopVars, deliveries,
                   dialVars, sent, wire>>

(* ----------------------------- the webhook ----------------------------- *)
\* notifyBounce runs: one POST to config.bounces.url.
NotifyBounce ==
    /\ \E h \in 1..Len(hooks) :
         /\ hooks[h].state = "scheduled"
         /\ hooks' = [hooks EXCEPT ![h].state = "posting", ![h].posts = @ + 1]
    /\ UNCHANGED <<flagVars, envVars, emptyChecks, delay, loopVars, deliveries,
                   dialVars, sent, pending, bounces, wire>>

\* stream 'error': if (retries++ <= 5) setTimeout(notifyBounce, ...)
retryBounce(hook) ==
    [hook EXCEPT !.state = IF hook.retries <= MaxBounceRetries THEN "scheduled" ELSE "abandoned",
                 !.retries = hook.retries + 1]

HookError ==
    /\ \E h \in 1..Len(hooks) :
         /\ hooks[h].state = "posting"
         /\ hooks' = [hooks EXCEPT ![h] = retryBounce(@)]
    /\ UNCHANGED <<flagVars, envVars, emptyChecks, delay, loopVars, deliveries,
                   dialVars, sent, pending, bounces, wire>>

\* stream 'end'
HookEnd ==
    /\ \E h \in 1..Len(hooks) :
         /\ hooks[h].state = "posting"
         /\ hooks' = [hooks EXCEPT ![h].state = "done"]
    /\ UNCHANGED <<flagVars, envVars, emptyChecks, delay, loopVars, deliveries,
                   dialVars, sent, pending, bounces, wire>>

(* ------------------------- the internal bounce ------------------------- *)
\* mutant: the hop test is >= instead of >
bounceDecision_Ge(delivery) ==
    IF delivery.from = "" THEN "nofrom"
    ELSE IF Len(get(delivery.headers, "Received")) >= MaxHops THEN "toomanyhops"
    ELSE "sent"

\* sendBounceMessage: what it decides for a delivery object
bounceDecision(delivery) ==
    IF delivery.from = "" THEN "nofrom"
    ELSE IF Len(get(delivery.headers, "Received")) > MaxHops THEN "toomanyhops"
    ELSE "sent"

SendBounceMessage ==
    /\ \E b \in 1..Len(bounces) :
         /\ bounces[b].state = "scheduled"
         /\ bounces' = [bounces EXCEPT ![b].state = bounceDecision(deliveries[bounces[b].id])]
         /\ IF bounceDecision(deliveries[bounces[b].id]) = "sent"
            THEN sendCommand(Command("BOUNCE", bounces[b].id,
                                     deliveries[bounces[b].id].seq, NoLock, 0), "bounced")
            ELSE UNCHANGED <<sent, pending>>
    /\ UNCHANGED <<flagVars, envVars, emptyChecks, delay, loopVars, deliveries,
                   dialVars, hooks, wire>>

(* -------------------------------- close -------------------------------- *)
Close ==
    /\ ~closing
    /\ closing' = TRUE
    /\ UNCHANGED <<errorEvents, envVars, emptyChecks, delay, loopVars, deliveries,
                   dialVars, sent, pending, taskVars, wire>>

Next ==
    \/ SendNext
    \/ GetError
    \/ GetEmpty
    \/ GetJob
    \/ Speedometer
    \/ ResolveMx
    \/ ResolveIp
    \/ ConnError
    \/ Connected
    \/ LoginDone
    \/ SendDone
    \/ ReplyError
    \/ ReplyOk
    \/ ReleaseRejectedOk
    \/ NotifyBounce
    \/ HookError
    \/ HookEnd
    \/ SendBounceMessage
    \/ Close

Spec == Init /\ [][Next]_vars

(* ------------------------- the idle worker ----------------------------- *)
\* A worker whose queue stays empty for long: one job, a pinned next hop.
IdleScenarios ==
    [deployment : {Deployment(FALSE, FALSE, FALSE, FALSE, TRUE, TRUE)},
     queue : {<<PlainJob>>}]

InitIdle == Start(IdleScenarios) /\ sockets = Untracked /\ calls = Uncounted

GetEmptyIdle == EmptyReply(MaxIdle)

NextIdle ==
    \/ SendNext
    \/ GetError
    \/ GetEmptyIdle
    \/ GetJob
    \/ Speedometer
    \/ ResolveIp
    \/ ConnError
    \/ Connected
    \/ LoginDone
    \/ SendDone
    \/ ReplyError
    \/ ReplyOk
    \/ ReleaseRejectedOk
    \/ Close

SpecIdle == InitIdle /\ [][NextIdle]_vars

(* ------------------- the worker with its callbacks fired ---------------- *)
\* One job, with MX resolution and AUTH, or with the webhook and the
\* internal bounce; two jobs to a pinned next hop.
LiveScenarios ==
    [deployment : {Deployment(FALSE, FALSE, FALSE, FALSE, TRUE, FALSE),
                   Deployment(TRUE, TRUE, TRUE, FALSE, FALSE, TRUE)},
     queue : {<<PlainJob>>}]
    \cup [deployment : {Deployment(FALSE, FALSE, FALSE, TRUE, FALSE, TRUE)},
          queue : {<<PlainJob, PlainJob>>}]

InitLive == Start(LiveScenarios) /\ sockets = Untracked /\ calls = Uncounted

\* Every callback the loop waits for is called in the end: setImmediate and
\* the timer, the queue's reply to GET, the speedometer, the DNS lookups,
\* the connection's connect/error and login callbacks, the send callback.
Fairness ==
    /\ WF_vars(SendNext)
    /\ WF_vars(GetError \/ GetEmpty \/ GetJob)
    /\ WF_vars(Speedometer)
    /\ WF_vars(ResolveMx)
    /\ WF_vars(ResolveIp)
    /\ WF_vars(ConnError \/ Connected)
    /\ WF_vars(ConnError \/ LoginDone)
    /\ WF_vars(SendDone)

SpecLive == InitLive /\ [][Next]_vars /\ Fairness

(* ------------------ the worker with its connections watched ------------- *)
InitConn == Start(LiveScenarios) /\ sockets = Tracked /\ calls = Uncounted

SpecConn == InitConn /\ [][Next]_vars

(* ------------- the worker with late events of its connections ---------- *)
\* One job, with MX resolution and AUTH, or to a pinned next hop with the
\* webhook and the internal bounce.
LateScenarios ==
    [deployment : {Deployment(FALSE, FALSE, FALSE, FALSE, TRUE, FALSE),
                   Deployment(TRUE, TRUE, TRUE, FALSE, FALSE, TRUE)},
     queue : {<<PlainJob>>}]

InitLate == Start(LateScenarios) /\ sockets = Untracked /\ calls = Counted

\* The connection emits 'error' after its result went to the callback: after
\* the reply to a failed AUTH was reported, or after the session was handed
\* over.  The handler registered with once('error') has not run, and
\* `returned` is still false: ETLS retries the IP, any other error moves to
\* the next IP unless `connected` is set.  Taken where the loop has stopped,
\* so that no other continuation of the worker is pending, and until the
\* callback was invoked MaxCalls times.
LateError ==
    /\ calls.watch
    /\ calls.n < MaxCalls
    /\ pc = "stopped"
    /\ cur > 0
    /\ ~conn.returned
    /\ conn.connected \/ deliveries[cur].reply \in LoginErrors
    /\ \/ /\ ~conn.ignoreTLS
          /\ zone' = [zone EXCEPT !.disableStarttls = TRUE]
          /\ tryConnectIP(TRUE, ipList, ipTry, zone', [conn EXCEPT !.returned = TRUE])
       \/ /\ ~conn.connected
          /\ zone' = zone
          /\ tryConnectIP(FALSE, ipList, ipTry, zone, [conn EXCEPT !.returned = TRUE])
       \/ /\ conn.connected
          /\ conn' = [conn EXCEPT !.returned = TRUE]
          /\ UNCHANGED <<zone, pc, exchanges, mxTry, ipList, ipTry, attempts, resolved,
                         deliveries, sent, pending>>
    /\ sockets' = opening(errorEvent(sockets), IF Len(attempts') > Len(attempts) THEN 1 ELSE 0)
    /\ calls' = invoked(calls)
    /\ UNCHANGED <<flagVars, config, queue, emptyChecks, delay, cur, taskVars, wire>>

NextLate == Next \/ LateError

SpecLate == InitLate /\ [][NextLate]_vars

(* ====================== the claims and their checks ===================== *)
Working == {"speedometer", "resolveMx", "resolveIp", "connect", "login", "send"}

\* delivery k has left the loop: its dial or its send has called back
Finished(k) == k < cur \/ (k = cur /\ pc \notin Working)

Positions(cmd, k) == {i \in 1..Len(sent) : sent[i].cmd = cmd /\ sent[i].id = k}

Acks(k) == Positions("RELEASE", k) \cup Positions("DEFER", k)

\* C1 as stated: every delivery returned by GET gets exactly one of RELEASE,
\* DEFER, BOUNCE, with the lock of its GET.
C1_ExactlyOneOfThree ==
    \A k \in 1..Len(deliveries) :
        LET all == Acks(k) \cup Positions("BOUNCE", k) IN
        /\ Cardinality(all) <= 1
        /\ Finished(k) => Cardinality(all) = 1
        /\ \A i \in all : sent[i].lock = deliveries[k].lock

\* C1 amended: every delivery returned by GET gets exactly one of RELEASE and
\* DEFER, sent when its dial or send calls back, with its id, seq and lock;
\* a BOUNCE is sent in addition to a RELEASE, at most once, after it, and
\* carries no lock.
C1_OneAckPlusBounce ==
    \A k \in 1..Len(deliveries) :
        /\ Cardinality(Acks(k)) = (IF Finished(k) THEN 1 ELSE 0)
        /\ \A i \in Acks(k) : /\ sent[i].lock = deliveries[k].lock
                              /\ sent[i].seq = deliveries[k].seq
        /\ Cardinality(Positions("BOUNCE", k)) <= 1
        /\ \A b \in Positions("BOUNCE", k) :
              /\ sent[b].lock = NoLock
              /\ \E r \in Positions("RELEASE", k) : r < b

\* C1 witness: with the webhook and internal bounces enabled, a rejected
\* delivery has had its RELEASE and its BOUNCE.
C1_Witness ==
    /\ config.bouncesUrl /\ config.bouncesEnabled
    /\ \E k \in 1..Len(deliveries) :
          Positions("RELEASE", k) # {} /\ Positions("BOUNCE", k) # {}

\* C2 as stated: no DEFER is sent for a delivery whose deferredCount is
\* greater than 6.
C2_NoDeferPastSix ==
    \A i \in 1..Len(sent) :
        sent[i].cmd = "DEFER" => deliveries[sent[i].id].deferredCount <= MaxDeferred

Outstanding(kind) == {w \in pending : w.onReply = kind}

\* C3 as stated: at most one command is outstanding at any time.
C3_OneOutstanding == Cardinality(pending) <= 1

\* C3 amended: at most one GET is outstanding, it is outstanding exactly
\* while the loop waits for it, and it is sent only after the RELEASE or
\* DEFER of every earlier delivery was sent; the replies to those may still
\* be outstanding.
C3_OneGetAfterAcksSent ==
    /\ Cardinality(Outstanding("get")) = (IF pc = "get" THEN 1 ELSE 0)
    /\ \A w \in Outstanding("get") : sent[w.i].cmd = "GET"
    /\ pc = "get" => \A k \in 1..Len(deliveries) : Acks(k) # {}

\* C3 witness: a GET is outstanding together with the RELEASE or DEFER of
\* the delivery before it.
C3_Witness ==
    /\ Outstanding("get") # {}
    /\ \E w \in pending : w.onReply \in {"accepted", "deferred", "rejected"}

\* the deliveries between their GET reply and the reply to their RELEASE/DEFER
InFlight == {k \in 1..Len(deliveries) :
                Acks(k) = {} \/ \E w \in pending : w.i \in Acks(k)}

\* the deliveries between their GET reply and the sending of their RELEASE/DEFER
InHand == {k \in 1..Len(deliveries) : Acks(k) = {}}

\* C4 as stated: at most one delivery is in flight, from its GET reply to the
\* reply to its terminal command.
C4_OneInFlight == Cardinality(InFlight) <= 1

\* C4 amended: at most one delivery is between its GET reply and the sending
\* of its RELEASE or DEFER, and it is the one the loop works on.
C4_OneInHand ==
    /\ Cardinality(InHand) <= 1
    /\ InHand = (IF pc \in Working THEN {cur} ELSE {})

\* C4 witness: a second job was returned while the RELEASE or DEFER of the
\* first is not acknowledged.
C4_Witness ==
    /\ Len(deliveries) = 2
    /\ InHand = {2}
    /\ 1 \in InFlight

Gets == {i \in 1..Len(sent) : sent[i].cmd = "GET"}

\* C5 as stated: an error reply sets closing and emits 'error', and after it
\* no command is sent and no delivery step is taken.
C5_NothingAfterError ==
    [][/\ errorEvents' > errorEvents => closing'
       /\ errorEvents > 0 => /\ sent' = sent
                             /\ attempts' = attempts
                             /\ wire' = wire]_vars

\* C5 amended: an error reply sets closing and emits 'error', closing stays
\* set, and no GET is sent afterwards.
C5_NoGetAfterError ==
    [][/\ errorEvents' > errorEvents => closing'
       /\ closing => closing'
       /\ errorEvents > 0 => closing /\ Gets' = Gets]_vars

\* C5 witness: after an error reply the loop came to sendNext and stopped.
C5_Witness ==
    /\ errorEvents > 0
    /\ pc = "stopped"
    /\ \E k \in 1..Len(deliveries) : Acks(k) # {}

\* the Received line this worker adds for a session / without one
OwnReceived == [key |-> "received", line |-> generateReceivedHeader("zone.helo")]

OwnReceivedNoSession == [key |-> "received", line |-> generateReceivedHeader("os.hostname")]

OwnLines(lines) ==
    {i \in 1..Len(lines) : lines[i] \in {OwnReceived, OwnReceivedNoSession}}

\* the number of DKIM-Signature headers signMessage adds to delivery k
Signatures(k) ==
    IF config.dkimEnabled /\ deliveries[k].hasDkim THEN Len(deliveries[k].dkimKeys) ELSE 0

\* C6 as stated: every header block written to a message stream has this
\* worker's Received header at index 0, and exactly one header of this worker.
C6_ReceivedAtIndexZero ==
    \A w \in 1..Len(wire) :
        /\ wire[w].headers[1] = OwnReceived
        /\ Cardinality(OwnLines(wire[w].headers)) = 1

\* C6 amended: every header block written to a message stream holds exactly
\* one Received header of this worker, naming the HELO name of the session;
\* it is above every header the delivery came with and below the n
\* DKIM-Signature headers signMessage added (first key on top), so it is at
\* index n, and at index 0 only when nothing was signed.
C6_ReceivedBelowSignatures ==
    \A w \in 1..Len(wire) :
        LET lines == wire[w].headers
            n == Signatures(wire[w].id)
        IN /\ Len(lines) > n
           /\ lines[n + 1] = OwnReceived
           /\ OwnLines(lines) = {n + 1}
           /\ \A i \in 1..n : lines[i] = [key |-> "dkim-signature",
                                          line |-> dkimSign(lines, deliveries[wire[w].id].dkimKeys[i])]
           /\ \A i \in (n + 2)..Len(lines) : lines[i].key # "dkim-signature"

\* C6 witness: a block was written for a delivery signed with two keys.
C6_Witness ==
    \E w \in 1..Len(wire) :
        /\ Signatures(wire[w].id) = 2
        /\ wire[w].headers[1].key = "dkim-signature"
        /\ wire[w].headers[3] = OwnReceived

\* C7: a step that sets zone.disableStarttls (the ETLS failure of an attempt)
\* makes the next attempt to the same exchange and IP with STARTTLS off,
\* advances neither ipTry nor mxTry and sends no command.
C7_StarttlsRetriesSameIp ==
    [][(~zone.disableStarttls /\ zone'.disableStarttls) =>
          /\ pc = "connect" /\ pc' = "connect"
          /\ attempts' = Append(attempts, conn')
          /\ conn'.exchange = conn.exchange
          /\ conn'.host = conn.host
          /\ conn'.ignoreTLS /\ ~conn'.requireTLS
          /\ ipTry' = ipTry /\ mxTry' = mxTry
          /\ sent' = sent]_vars

\* C7 witness: an attempt with STARTTLS was followed by an attempt to the
\* same exchange and IP without it.
C7_Witness ==
    /\ zone.disableStarttls
    /\ \E i \in 1..(Len(attempts) - 1) :
          /\ ~attempts[i].ignoreTLS /\ attempts[i + 1].ignoreTLS
          /\ attempts[i].exchange = attempts[i + 1].exchange
          /\ attempts[i].host = attempts[i + 1].host

Dialing == {"resolveMx", "resolveIp", "connect", "login"}

Stage(p) == CASE p = "resolveMx" -> 0 [] p = "resolveIp" -> 1
              [] p = "connect" -> 2 [] p = "login" -> 3 [] OTHER -> 0

\* grows with every step of a dial
DialRank == 4 * (mxTry + Len(attempts)) + Stage(pc)

SamePair(a, b) == a.exchange = b.exchange /\ a.host = b.host

\* C8: in a dial no (exchange, ip) pair is attempted more than twice, the
\* attempts number at most twice the resolved IPs, and every step of the dial
\* uses up some of a bounded rank, so the dial ends.
C8_DialBounded ==
    /\ [](/\ \A i \in 1..Len(attempts) :
               Cardinality({j \in 1..Len(attempts) : SamePair(attempts[i], attempts[j])}) <= 2
          /\ Len(attempts) <= 2 * resolved
          /\ mxTry <= Len(exchanges)
          /\ DialRank <= 4 * (MaxMX + 2 * MaxMX * MaxIPs) + 3)
    /\ [][(pc \in Dialing /\ pc' \in Dialing /\ <<pc, dialVars>>' # <<pc, dialVars>>)
            => DialRank' > DialRank]_vars

\* C8 witness: an IP was attempted twice and the dial went on to another IP.
C8_Witness ==
    \E i \in 1..(Len(attempts) - 2) :
        /\ SamePair(attempts[i], attempts[i + 1])
        /\ ~SamePair(attempts[i + 1], attempts[i + 2])

\* C9 as stated: the webhook POST of a delivery is made at most six times
\* (five retries).
C9_AtMostSixPosts ==
    \A h \in 1..Len(hooks) :
        hooks[h].posts <= MaxBounceRetries + 1 /\ hooks[h].retries <= MaxBounceRetries + 1

StoredHopCount(lines) ==
    Cardinality({i \in 1..Len(lines) : lines[i] = Headers(<<HopLine>>)[1]})

\* C10: a decided sendBounceMessage sent BOUNCE exactly when the sender is
\* not empty and the Received headers the delivery came with, plus the one
\* this worker added, are at most 25; a suppressed BOUNCE leaves the RELEASE
\* sent and the webhook scheduled when configured; no BOUNCE without sender.
C10_BounceSuppression ==
    /\ \A b \in 1..Len(bounces) :
          LET d == deliveries[bounces[b].id]
              hops == StoredHopCount(d.headers) + 1
          IN /\ Cardinality(OwnLines(d.headers)) = 1
             /\ bounces[b].state # "scheduled" =>
                   (bounces[b].state = "sent" <=> (d.from # "" /\ hops <= MaxHops))
             /\ bounces[b].state = "toomanyhops" =>
                   /\ d.from # "" /\ hops > MaxHops
                   /\ Positions("RELEASE", d.id) # {}
                   /\ Positions("BOUNCE", d.id) = {}
                   /\ config.bouncesUrl => \E h \in 1..Len(hooks) : hooks[h].id = d.id
    /\ \A k \in 1..Len(deliveries) :
          Positions("BOUNCE", k) # {} =>
             /\ deliveries[k].from # ""
             /\ \E b \in 1..Len(bounces) : bounces[b].id = k /\ bounces[b].state = "sent"

\* C10 witness: a BOUNCE was suppressed for too many hops and the webhook of
\* that delivery has posted.
C10_Witness ==
    \E b \in 1..Len(bounces) :
        /\ bounces[b].state = "toomanyhops"
        /\ \E h \in 1..Len(hooks) : hooks[h].id = bounces[b].id /\ hooks[h].posts > 0

\* the minutes of the claimed ttl, written out
TtlMinutes(c) ==
    CASE c = 0 -> 5 [] c = 1 -> 25 [] c = 2 -> 125 [] c = 3 -> 625 [] OTHER -> 1024

\* C11: every DEFER carries ttl = min(5^(deferredCount+1), 1024) * 60 * 1000 ms
\* for the deferral count of its delivery; the ttl does not decrease with the
\* count, is 5 minutes for count 0 and never exceeds 1024 minutes.
C11_DeferTtl ==
    /\ \A i \in 1..Len(sent) :
          sent[i].cmd = "DEFER" =>
             sent[i].ttl = TtlMinutes(deliveries[sent[i].id].deferredCount) * 60 * 1000
    /\ \A c \in 0..MaxCount :
          /\ DeferTtl(c) = TtlMinutes(c) * 60 * 1000
          /\ DeferTtl(c) <= DeferTtl(c + 1)
          /\ DeferTtl(c) <= 1024 * 60 * 1000
    /\ DeferTtl(0) = 5 * 60 * 1000

\* C11 witness: a first deferral (5 minutes) and a deferral at the cap were sent.
C11_Witness ==
    /\ \E i \in 1..Len(sent) : sent[i].cmd = "DEFER" /\ sent[i].ttl = 300000
    /\ \E i \in 1..Len(sent) :
          /\ sent[i].cmd = "DEFER" /\ sent[i].ttl = 61440000
          /\ deliveries[sent[i].id].deferredCount > MaxDeferred

\* delivery k failed with a reply classified reject, below the deferral cap
Rejected(k) ==
    /\ deliveries[k].reply \notin {NoReply, Accepted}
    /\ bounces_check(deliveries[k].reply) = "reject"
    /\ deliveries[k].deferredCount <= MaxDeferred

\* the RELEASE of delivery k was sent and its reply has arrived
ReleaseAnswered(k) ==
    /\ Positions("RELEASE", k) # {}
    /\ \A w \in pending : w.i \notin Positions("RELEASE", k)

\* the deliveries that have a webhook closure, a scheduled bounce or a BOUNCE
Bounced == {hooks[h].id : h \in 1..Len(hooks)} \cup {bounces[b].id : b \in 1..Len(bounces)}
           \cup {k \in 1..Len(deliveries) : Positions("BOUNCE", k) # {}}

\* C12: a delivery that failed with a reject reply (deferredCount <= 6) gets
\* RELEASE and no DEFER; a webhook or an internal bounce exists only for such
\* a delivery and only once its RELEASE was answered, and the step that
\* starts them is the arrival of that answer without error; deferred and
\* accepted deliveries have neither.
C12_BounceAfterRelease ==
    /\ [](/\ \A k \in 1..Len(deliveries) :
               Rejected(k) => Positions("RELEASE", k) # {} /\ Positions("DEFER", k) = {}
          /\ \A k \in Bounced :
               /\ Rejected(k)
               /\ ReleaseAnswered(k)
               /\ Positions("DEFER", k) = {})
    /\ [][(Len(hooks') > Len(hooks) \/ Len(bounces') > Len(bounces)) =>
            /\ errorEvents' = errorEvents /\ closing' = closing
            /\ \E w \in pending \ pending' :
                  /\ sent[w.i].cmd = "RELEASE"
                  /\ Bounced' \ Bounced \subseteq {sent[w.i].id}
            /\ sent' = sent]_vars

\* C12 witness: a delivery refused with 550 has had its RELEASE answered, its
\* webhook posted and its BOUNCE sent, while an earlier or later delivery
\* that was accepted or deferred has none.
C12_Witness ==
    /\ \E k \in 1..Len(deliveries) :
          /\ deliveries[k].reply = "550 5.1.1 no such user"
          /\ ReleaseAnswered(k)
          /\ Positions("BOUNCE", k) # {}
    /\ \E k \in 1..Len(deliveries) :
          /\ deliveries[k].reply \in {Accepted, "451 4.3.0 try later"}
          /\ k \notin Bounced

\* the (exchange, ip) pairs attempted in the current dial
Attempted == {<<attempts[i].exchange, attempts[i].host>> : i \in 1..Len(attempts)}

\* attempt b follows attempt a in list order: the same IP again, the next IP
\* of the same exchange, or the first IP of a later exchange
InListOrder(a, b) ==
    \/ a.exchange = b.exchange /\ b.host[2] \in {a.host[2], a.host[2] + 1}
    \/ a.exchange[2] < b.exchange[2] /\ b.host[2] = 1

\* C13: the attempts of a dial follow the exchange list and, within an
\* exchange, its IP list, without leaving an IP out; an exchange whose
\* address resolution fails or is empty gets no attempt and the dial goes on;
\* the reply "450 Can't connect to any MX server" is reported only when every
\* exchange was taken and every resolved IP was attempted, and the delivery
\* is then deferred.
C13_DialInListOrder ==
    /\ [](/\ attempts # <<>> => attempts[1].host[2] = 1
          /\ \A i \in 1..(Len(attempts) - 1) : InListOrder(attempts[i], attempts[i + 1])
          /\ \A i \in 1..Len(attempts) :
                /\ attempts[i].exchange[2] <= mxTry
                /\ attempts[i].exchange \in {exchanges[m] : m \in 1..Len(exchanges)}
          /\ Cardinality(Attempted) <= resolved)
    /\ [][(cur > 0 /\ cur = cur' /\ deliveries[cur].reply = NoReply
            /\ deliveries'[cur].reply = CantConnectMx) =>
            /\ mxTry = Len(exchanges)
            /\ Cardinality(Attempted) = resolved
            /\ pc \in {"resolveMx", "resolveIp"} => ipList = <<>>
            /\ pc \in {"connect", "login"} => ipTry = Len(ipList) - 1
            /\ sent' = Append(sent, Command("DEFER", cur, deliveries[cur].seq,
                                            deliveries[cur].lock, sent'[Len(sent')].ttl))]_vars
    /\ [][(pc = "resolveIp" /\ attempts' = attempts /\ pc' \in Dialing
            /\ dialVars' # dialVars) =>
            mxTry' = mxTry + 1 /\ pc' = "resolveIp" /\ sent' = sent]_vars

\* C13 witness: both IPs of the first exchange and both IPs of the second
\* were attempted, in that order, and the last of them is being connected.
C13_Witness ==
    /\ pc = "connect"
    /\ Len(exchanges) = 2 /\ mxTry = 2
    /\ Cardinality(Attempted) = 4
    /\ resolved = 4
    /\ ipTry = Len(ipList) - 1

LastAck == LET acks == {i \in 1..Len(sent) : sent[i].cmd \in {"RELEASE", "DEFER"}}
           IN IF acks = {} THEN 0 ELSE CHOOSE i \in acks : \A j \in acks : j <= i

\* the GETs sent since the last job was returned (or since the start)
EmptyRun == Cardinality({g \in Gets : g > LastAck})

\* the claimed wait after the n-th empty GET in a row, ms
IdleWait(n) == IF n * n < 1000 THEN n * n * 10 ELSE 10000

\* C14: while the empty-queue timer runs after the n-th GET in a row that
\* returned no job, its delay is min(n^2, 1000) * 10 ms, at most 10 s, and
\* emptyChecks is n; a GET that returns a job sets emptyChecks to 0.
C14_EmptyBackoff ==
    /\ pc = "timer" => /\ emptyChecks = EmptyRun
                       /\ delay = IdleWait(EmptyRun)
                       /\ delay <= 10000
    /\ pc = "get" => emptyChecks = EmptyRun - 1
    /\ pc \in Working => emptyChecks = 0
    /\ pc = "next" => emptyChecks = 0 /\ EmptyRun = 0

\* C14 witness: after a delivery the queue stayed empty until the delay
\* reached its cap.
C14_Witness ==
    /\ Len(deliveries) = 1
    /\ pc = "timer"
    /\ emptyChecks = 32
    /\ delay = 10000

\* C15: a GET is sent only by a loop iteration that finds the drain flag
\* false, whether setImmediate or the empty-queue timer started it; an
\* iteration that finds it set sends nothing and ends the loop; the flag,
\* once set, stays set.
C15_NoGetAfterClose ==
    [][/\ Gets' # Gets => ~closing /\ ~closing' /\ pc \in {"next", "timer"} /\ pc' = "get"
       /\ (closing /\ pc \in {"next", "timer"} /\ pc' # pc) => pc' = "stopped" /\ sent' = sent
       /\ closing => closing']_vars

\* C15 witness: close() was called while the empty-queue timer was pending,
\* and the iteration the timer started ended the loop without a GET.
C15_Witness ==
    /\ closing /\ errorEvents = 0
    /\ pc = "stopped"
    /\ emptyChecks > 0
    /\ Cardinality(Gets) = emptyChecks + Len(deliveries)

\* C16: with every callback fired in the end, every job a GET returned gets
\* its RELEASE or DEFER, also when the drain flag is set while the delivery
\* is in hand.
C16_EveryJobAcked ==
    \A k \in 1..MaxDeliveries : [](Len(deliveries) >= k => <>(Acks(k) # {}))

\* C16 witness: close() was called and a delivery is in hand, being sent.
C16_Witness ==
    /\ closing /\ errorEvents = 0
    /\ pc = "send"
    /\ Acks(cur) = {}

\* C17: the step that sends the RELEASE or DEFER of a delivery (accepted,
\* failed, dial failed) schedules the next iteration, one GET is sent per
\* scheduled iteration, and while the drain flag is not set that iteration
\* sends a GET in the end.
C17_NextIterationScheduled ==
    /\ [][(Len(sent') > Len(sent) /\ sent'[Len(sent')].cmd \in {"RELEASE", "DEFER"}) =>
            pc \in Working /\ pc' = "next"]_vars
    /\ [][(pc = "next" /\ pc' # pc) =>
            /\ pc' = (IF closing THEN "stopped" ELSE "get")
            /\ Len(sent') = Len(sent) + (IF closing THEN 0 ELSE 1)]_vars
    /\ [](pc = "get" => EmptyRun = emptyChecks + 1)
    /\ \A k \in 1..MaxDeliveries :
          (Acks(k) # {}) ~> (closing \/ Cardinality({g \in Gets : \A a \in Acks(k) : g > a}) > 0)

\* C17 witness: a delivery was refused for good and the GET after it is out.
C17_Witness ==
    /\ ~closing
    /\ pc = "get"
    /\ Len(deliveries) = 1
    /\ deliveries[1].reply = "550 5.1.1 no such user"
    /\ EmptyRun = 1

\* the commands that concern delivery k
Concerning(k) == Acks(k) \cup Positions("BOUNCE", k)

\* the GET that returned delivery k: the last GET before its RELEASE or DEFER
GetOf(k) ==
    LET gets == {g \in Gets : \A a \in Acks(k) : g < a}
    IN CHOOSE g \in gets : \A h \in gets : h <= g

\* C18 as stated: every command concerning delivery k, its BOUNCE included,
\* is sent before the GET that returned delivery k+1 and before every
\* command concerning delivery k+1.
C18_CommandsInDeliveryOrder ==
    \A k \in 1..(Len(deliveries) - 1) :
        \A i \in Concerning(k) :
            /\ i < GetOf(k + 1)
            /\ \A j \in Concerning(k + 1) : i < j

\* C18 amended: the RELEASE or DEFER of delivery k is sent before the GET
\* that returned delivery k+1, which is sent before the RELEASE or DEFER of
\* delivery k+1; the BOUNCE of delivery k comes after its RELEASE, at any
\* later place in the sequence.
C18_AcksInDeliveryOrder ==
    /\ \A k \in 1..(Len(deliveries) - 1) :
          /\ Acks(k) # {}
          /\ \A i \in Acks(k) :
                /\ i < GetOf(k + 1)
                /\ \A j \in Concerning(k + 1) : i < j
    /\ \A k \in 1..Len(deliveries) :
          /\ \A j \in Acks(k) : GetOf(k) < j
          /\ \A b \in Positions("BOUNCE", k) : \E r \in Positions("RELEASE", k) : r < b

\* C18 witness: the BOUNCE of the first delivery was sent after the GET that
\* returned the second and after the second delivery's RELEASE or DEFER.
C18_Witness ==
    /\ Len(deliveries) = 2
    /\ \E b \in Positions("BOUNCE", 1) :
          /\ GetOf(2) < b
          /\ \E a \in Acks(2) : a < b

\* the connection the worker holds and has neither closed nor seen fail
Live == IF pc \in {"connect", "login", "send"} THEN {sockets.opened} ELSE {}

Sessions == {wire[w].session : w \in 1..Len(wire)}

\* C19 as stated: every connection the worker made and no longer holds was
\* closed by the worker, whatever the exit path, and no connection serves
\* the send of two deliveries.
C19_WorkerClosesAll ==
    /\ \A c \in 1..sockets.opened : c \in sockets.closed \/ c \in Live
    /\ Cardinality(Sessions) = Len(wire)

\* C19 amended: the worker calls close() on the connection of every send,
\* accepted or not, when send calls back, and on a connection whose AUTH
\* failed; a connection that emitted 'error' before it was handed over (a
\* connect failure, a STARTTLS failure before the plaintext retry) is let go
\* without a close() call of the worker; no connection that failed is used
\* for a send and none serves the send of two deliveries.
C19_ClosedAfterSendOrAuth ==
    /\ \A c \in 1..sockets.opened :
          Cardinality({S \in {sockets.closed, sockets.errored, Live} : c \in S}) = 1
    /\ sockets.closed \cup sockets.errored \cup Live \subseteq 1..sockets.opened
    /\ Cardinality(Sessions) = Len(wire)
    /\ Sessions \cap sockets.errored = {}
    /\ \A w \in 1..Len(wire) :
          wire[w].session \in sockets.closed \/ (pc = "send" /\ wire[w].id = cur)
    /\ Cardinality(sockets.closed) =
          Cardinality(Sessions \ Live)
          + Cardinality({k \in 1..Len(deliveries) : deliveries[k].reply \in LoginErrors})

\* C19 witness: two deliveries were sent, each on its own connection, both
\* closed by the worker, and a connection that failed to connect was let go.
C19_Witness ==
    /\ Len(wire) = 2
    /\ Sessions \subseteq sockets.closed
    /\ Cardinality(sockets.closed) = 2
    /\ sockets.errored # {}
    /\ pc = "next"

\* C20: an attempt created while zone.disableStarttls is true ignores
\* STARTTLS and does not require TLS, an attempt created while it is false
\* requires TLS; a STARTTLS failure is seen only on an attempt created while
\* the flag was false, and while the flag is true the connection in use is
\* one that ignores STARTTLS.
C20_NoStarttlsWhenDisabled ==
    /\ [][Len(attempts') > Len(attempts) =>
            /\ attempts' = Append(attempts, conn')
            /\ conn'.ignoreTLS = zone'.disableStarttls
            /\ conn'.requireTLS = ~zone'.disableStarttls]_vars
    /\ [][(~zone.disableStarttls /\ zone'.disableStarttls) =>
            ~conn.ignoreTLS /\ conn.requireTLS]_vars
    /\ []((pc \in {"connect", "login", "send"} /\ zone.disableStarttls) =>
            conn.ignoreTLS /\ ~conn.requireTLS)

\* C20 witness: the first attempt was made with STARTTLS, and after its
\* failure set the flag, the retry and the attempt to the next IP were made
\* without it.
C20_Witness ==
    /\ Len(attempts) >= 3
    /\ ~attempts[1].ignoreTLS /\ attempts[1].requireTLS
    /\ attempts[2].ignoreTLS /\ attempts[3].ignoreTLS
    /\ attempts[3].host # attempts[2].host
    /\ zone.disableStarttls

\* the deliveries whose header block was written to a message stream
Written == {wire[w].id : w \in 1..Len(wire)}

\* C21: once the header block of a delivery was written to the message
\* stream, no step adds or changes a header of that delivery: the send
\* callback, the RELEASE/DEFER handling, the webhook and the internal bounce
\* leave delivery.headers as written.
C21_HeadersFrozenAfterWrite ==
    /\ [](\A w \in 1..Len(wire) : deliveries[wire[w].id].headers = wire[w].headers)
    /\ [][\A k \in Written : deliveries'[k].headers = deliveries[k].headers]_vars
    /\ [](Cardinality(Written) = Len(wire))

\* C21 witness: a delivery written to the stream was refused, its webhook
\* posted and its BOUNCE sent, and its headers are the block written.
C21_Witness ==
    \E w \in 1..Len(wire) :
        /\ deliveries[wire[w].id].reply = "550 5.1.1 no such user"
        /\ Positions("BOUNCE", wire[w].id) # {}
        /\ \E h \in 1..Len(hooks) : hooks[h].id = wire[w].id /\ hooks[h].state = "done"
        /\ deliveries[wire[w].id].headers = wire[w].headers

\* C22 as stated: the server's reply to a failed AUTH is surfaced to the
\* delivery loop only when the dialer has no further IP of the exchange and
\* no further exchange left to attempt.
C22_AuthFailureTriesNext ==
    [][(pc = "login" /\ pc' = "next" /\ deliveries'[cur].reply \in LoginErrors)
          => /\ ipTry >= Len(ipList) - 1
             /\ mxTry >= Len(exchanges)]_vars

\* C24: zone.disableStarttls never goes back to false; a STARTTLS failure
\* answered with a plaintext retry leaves the flag set; and every attempt
\* created while the flag is set, in this delivery or a later one, ignores
\* STARTTLS, so within a dial no attempt with STARTTLS follows one without.
C24_StarttlsOffForGood ==
    /\ [][zone.disableStarttls => zone'.disableStarttls]_vars
    /\ [][(pc = "connect" /\ pc' = "connect" /\ ~conn.ignoreTLS /\ conn'.ignoreTLS)
            => zone'.disableStarttls]_vars
    /\ [][(zone.disableStarttls /\ Len(attempts') > Len(attempts))
            => attempts'[Len(attempts')].ignoreTLS]_vars
    /\ [](\A i, j \in 1..Len(attempts) :
              (i < j /\ attempts[i].ignoreTLS) => attempts[j].ignoreTLS)

\* C24 witness: in a zone that started with STARTTLS on, the second delivery
\* is attempted, at its second IP, without STARTTLS from its first attempt on.
C24_Witness ==
    /\ config.dkimEnabled /\ ~config.bouncesUrl /\ zone.host /\ ~zone.auth
    /\ zone.disableStarttls
    /\ cur = 2
    /\ Len(attempts) >= 2
    /\ \A i \in 1..Len(attempts) : attempts[i].ignoreTLS
    /\ attempts[1].host # attempts[2].host

\* C23 as stated: the callback of a getConnection call is invoked at most
\* once, whatever events its connections emit and whenever they arrive, so
\* no delivery is handed to the loop or acknowledged a second time.
C23_CallbackOnce ==
    /\ calls.n <= 1
    /\ \A k \in 1..Len(deliveries) : Cardinality(Acks(k)) <= 1

====
